---- MODULE Spec2Model ----
(***************************************************************************)
(* Model of app.py ("Mapa inwestycyjna + MPZP"): the coordinate parser,    *)
(* the planar area estimate, the national MPZP lookup with its status      *)
(* heuristic, the local MPZP stub, and the Streamlit session around them.  *)
(*                                                                         *)
(* Numbers are binary floating point values m * 2^e with a mantissa of     *)
(* MantBits bits, rounded to nearest, ties to even, after every operation, *)
(* as Python floats are (binary64 has 53 bits; the model keeps fewer so    *)
(* that rounding shows on small inputs).  Infinity and NaN are kept.       *)
(* Texts are sequences of lexemes: single characters for the coordinate    *)
(* input, words for the HTML messages.                                     *)
(***************************************************************************)
EXTENDS Integers, Sequences, FiniteSets, TLC

VARIABLES
    punkty_mapy,          \* st.session_state.punkty_mapy
    wyniki_powierzchni,   \* st.session_state.wyniki_powierzchni
    mpzp_krajowy_html,    \* st.session_state.mpzp_krajowy_html
    mpzp_krajowy_status,  \* st.session_state.mpzp_krajowy_status
    mpzp_lokalny_info,    \* st.session_state.mpzp_lokalny_info
    wybrana_gmina,        \* st.session_state.wybrana_gmina
    pc,                   \* where the script run stands: "idle" or "czeka" (blocked in requests.get)
    siec,                 \* what requests.get last handed back
    slad,                 \* what the last GENERUJ run did, in order
    ekran,                \* what the last script run rendered
    arg,                  \* input of the pure function under check
    ret                   \* its result

vars == <<punkty_mapy, wyniki_powierzchni, mpzp_krajowy_html, mpzp_krajowy_status,
          mpzp_lokalny_info, wybrana_gmina, pc, siec, slad, ekran, arg, ret>>

sesja == <<punkty_mapy, wyniki_powierzchni, mpzp_krajowy_html, mpzp_krajowy_status,
           mpzp_lokalny_info, wybrana_gmina, pc, siec, slad, ekran>>

\* An optional value: None, or the one value held.
None == <<>>

Some(v) == <<v>>

-----------------------------------------------------------------------------
(* Bounds of the model.                                                    *)

\* Mantissa width of the modelled float format.
MantBits == 5
\* Longest vertex list given to oblicz_powierzchnie_m2 on its own.
MaxPkt == 3
\* Longest coordinate text given to parsuj_wspolrzedne on its own.
MaxTekst == 8
\* Most numeric tokens in a text submitted in the session.
MaxTokeny == 6

-----------------------------------------------------------------------------
(* Floating point.                                                         *)

RECURSIVE Pow2(_)
Pow2(n) ==
    IF n <= 0 THEN 1 ELSE 2 * Pow2(n - 1)

RECURSIVE Pow10(_)
Pow10(n) ==
    IF n <= 0 THEN 1 ELSE 10 * Pow10(n - 1)

Abs(x) ==
    IF x < 0 THEN -x ELSE x

Sgn(x) ==
    IF x < 0 THEN -1 ELSE 1

RECURSIVE BitLen(_)
BitLen(n) ==
    IF n <= 0 THEN 0 ELSE 1 + BitLen(n \div 2)

NaN == [k |-> "nan", m |-> 0, e |-> 0]

Inf(s) == [k |-> "inf", m |-> s, e |-> 0]

\* The finite value m * 2^e in canonical form (m odd, or zero).
RECURSIVE Canon(_, _)
Canon(m, e) ==
    IF m = 0 THEN [k |-> "fin", m |-> 0, e |-> 0]
    ELSE IF Abs(m) % 2 = 0 THEN Canon(Sgn(m) * (Abs(m) \div 2), e + 1)
    ELSE [k |-> "fin", m |-> m, e |-> e]

FZero == Canon(0, 0)

\* m * 2^e rounded to MantBits significant bits, to nearest, ties to even.
Zaokr(m, e) ==
    LET a    == Abs(m)
        s    == IF BitLen(a) > MantBits THEN BitLen(a) - MantBits ELSE 0
        q    == a \div Pow2(s)
        r    == a % Pow2(s)
        half == IF s = 0 THEN 0 ELSE Pow2(s - 1)
        up   == s > 0 /\ (r > half \/ (r = half /\ q % 2 = 1))
    IN  Canon(Sgn(m) * (IF up THEN q + 1 ELSE q), e + s)

\* num / den (num >= 0, den > 0) correctly rounded; with ponizej the exact
\* value lies just below num / den.
RatRound(num, den, ponizej) ==
    LET want   == MantBits + 2 + BitLen(den) - BitLen(num)
        K      == IF want > 0 THEN want ELSE 0
        n2     == num * Pow2(K) - (IF ponizej THEN 1 ELSE 0)
        q      == n2 \div den
        sticky == IF ponizej \/ n2 % den # 0 THEN 1 ELSE 0
    IN  IF num = 0 THEN FZero ELSE Zaokr(2 * q + sticky, -(K + 1))

FNeg(a) ==
    IF a.k = "nan" THEN NaN ELSE [a EXCEPT !.m = -a.m]

FAbs(a) ==
    IF a.k = "nan" THEN NaN ELSE [a EXCEPT !.m = Abs(a.m)]

FAdd(a, b) ==
    IF a.k = "nan" \/ b.k = "nan" THEN NaN
    ELSE IF a.k = "inf" THEN (IF b.k = "inf" /\ b.m # a.m THEN NaN ELSE a)
    ELSE IF b.k = "inf" THEN b
    ELSE IF a.m = 0 THEN b
    ELSE IF b.m = 0 THEN a
    ELSE LET ta == a.e + BitLen(Abs(a.m))
             tb == b.e + BitLen(Abs(b.m))
             em == IF a.e < b.e THEN a.e ELSE b.e
         IN  IF ta - tb > MantBits + 2 THEN a
             ELSE IF tb - ta > MantBits + 2 THEN b
             ELSE Zaokr(a.m * Pow2(a.e - em) + b.m * Pow2(b.e - em), em)

FSub(a, b) ==
    FAdd(a, FNeg(b))

FMul(a, b) ==
    IF a.k = "nan" \/ b.k = "nan" THEN NaN
    ELSE IF a.k = "inf" \/ b.k = "inf"
         THEN (IF a.m = 0 \/ b.m = 0 THEN NaN ELSE Inf(Sgn(a.m) * Sgn(b.m)))
    ELSE Zaokr(a.m * b.m, a.e + b.e)

\* a / n for a positive integer n that the float format holds exactly
\* (len(punkty), 2.0, 100.0, 10000.0).
FDiv(a, n) ==
    IF a.k # "fin" \/ a.m = 0 THEN a
    ELSE LET K      == MantBits + 1 + BitLen(n)
             big    == Abs(a.m) * Pow2(K)
             sticky == IF big % n # 0 THEN 1 ELSE 0
         IN  Zaokr(Sgn(a.m) * (2 * (big \div n) + sticky), a.e - K - 1)

\* The integer part of |a| for a finite a, capped at 1000.
CzescCalkowita(a) ==
    IF a.e >= 0
    THEN (IF a.e > 10 THEN 1000 ELSE
            LET v == Abs(a.m) * Pow2(a.e) IN IF v > 1000 THEN 1000 ELSE v)
    ELSE (IF -a.e > 20 THEN 0 ELSE Abs(a.m) \div Pow2(-a.e))

-----------------------------------------------------------------------------
(* 1. Geometry helpers.                                                    *)

\* The lexeme standing for a run of 310 characters "9": as an integer part
\* it is beyond the largest binary64 value, and float() returns inf.
Dziewiatki == "9x310"

Cyfry == {"0", "1", "2", "3", "4", "5", "6", "7", "8", "9", Dziewiatki}

WartoscCyfry(c) ==
    CASE c = "0" -> 0 [] c = "1" -> 1 [] c = "2" -> 2 [] c = "3" -> 3
      [] c = "4" -> 4 [] c = "5" -> 5 [] c = "6" -> 6 [] c = "7" -> 7
      [] c = "8" -> 8 [] OTHER -> 9

\* \d* from position j: the first position that holds no digit.
RECURSIVE KoniecCyfr(_, _)
KoniecCyfr(t, j) ==
    IF j <= Len(t) /\ t[j] \in Cyfry THEN KoniecCyfr(t, j + 1) ELSE j

\* The regular expression -?\d+\.?\d* tried at position i: the position after
\* the match, or 0 when it does not match there.
Dopasuj(t, i) ==
    LET j == IF t[i] = "-" THEN i + 1 ELSE i
        k == KoniecCyfr(t, j)
        l == IF k <= Len(t) /\ t[k] = "." THEN k + 1 ELSE k
    IN  IF k = j THEN 0 ELSE KoniecCyfr(t, l)

\* re.findall: the matches from left to right, none overlapping.
RECURSIVE findall(_, _)
findall(t, i) ==
    IF i > Len(t) THEN <<>>
    ELSE LET kon == Dopasuj(t, i)
         IN  IF kon = 0 THEN findall(t, i + 1)
             ELSE <<SubSeq(t, i, kon - 1)>> \o findall(t, kon)

\* The digits of d from position i on as an integer, while none is the long run.
RECURSIVE Liczba(_, _, _)
Liczba(d, i, acc) ==
    IF i > Len(d) \/ d[i] = Dziewiatki THEN acc
    ELSE Liczba(d, i + 1, 10 * acc + WartoscCyfry(d[i]))

\* How many digits of d come before the first long run.
RECURSIVE IlePrzed(_, _)
IlePrzed(d, i) ==
    IF i > Len(d) \/ d[i] = Dziewiatki THEN i - 1 ELSE IlePrzed(d, i + 1)

\* float(x) of a matched token: the correctly rounded value of the decimal.
float(tok) ==
    LET uj   == tok[1] = "-"
        cia  == IF uj THEN Tail(tok) ELSE tok
        kr   == KoniecCyfr(cia, 1)
        cal  == SubSeq(cia, 1, kr - 1)
        ulam == SubSeq(cia, kr + 1, Len(cia))
        n    == IlePrzed(ulam, 1)
        licz == Liczba(cal \o ulam, 1, 0)
        w    == IF \E i \in 1..Len(cal) : cal[i] = Dziewiatki THEN Inf(1)
                ELSE IF n < Len(ulam) THEN RatRound(licz + 1, Pow10(n), TRUE)
                ELSE RatRound(licz, Pow10(n), FALSE)
    IN  IF uj THEN FNeg(w) ELSE w

RECURSIVE Pary(_, _)
Pary(lf, i) ==
    IF i > Len(lf) THEN <<>>
    ELSE <<<<lf[i], lf[i + 1]>>>> \o Pary(lf, i + 2)

\* The parser cutting the first value, not the last, off an odd count.
parsuj_wspolrzedne_BezPierwszej(tekst) ==
    LET liczby       == findall(tekst, 1)
        liczby_float == [i \in 1..Len(liczby) |-> float(liczby[i])]
        parzyste     == IF Len(liczby_float) % 2 # 0
                        THEN Tail(liczby_float)
                        ELSE liczby_float
    IN  Pary(parzyste, 1)

parsuj_wspolrzedne(tekst) ==
    LET liczby       == findall(tekst, 1)
        liczby_float == [i \in 1..Len(liczby) |-> float(liczby[i])]
        parzyste     == IF Len(liczby_float) % 2 # 0
                        THEN SubSeq(liczby_float, 1, Len(liczby_float) - 1)
                        ELSE liczby_float
    IN  Pary(parzyste, 1)

\* sum(...) of column c of the points, left to right from 0.
RECURSIVE Suma(_, _, _, _)
Suma(punkty, c, i, acc) ==
    IF i > Len(punkty) THEN acc
    ELSE Suma(punkty, c, i + 1, FAdd(acc, punkty[i][c]))

\* 111132.954, which rounds as 111133 does at every width below 16 bits.
metry_na_stopien_lat == Zaokr(111133, 0)

\* (math.pi / 180) * R * math.cos(lat_rad) sampled every ten degrees of
\* |center_lat|; math.cos raises ValueError on an infinity and passes NaN on.
TablicaLon == <<111319, 109628, 104606, 96406, 85276, 71555, 55660, 38074, 19330, 0>>

\* What a call gives: the value it returns, or the exception it raises.
Zwrot(w) == [typ |-> "zwrot", wart |-> w, klasa |-> ""]

Wyjatek(klasa) == [typ |-> "wyjatek", wart |-> FZero, klasa |-> klasa]

metry_na_stopien_lon(center_lat) ==
    IF center_lat.k = "inf" THEN Wyjatek("ValueError")
    ELSE IF center_lat.k = "nan" THEN Zwrot(NaN)
    ELSE LET d == CzescCalkowita(center_lat) \div 10
         IN  Zwrot(Zaokr(TablicaLon[IF d > 9 THEN 10 ELSE d + 1], 0))

\* The shoelace sum over the projected vertices, edge i first.
RECURSIVE Gauss(_, _, _)
Gauss(xy, i, area) ==
    IF i > Len(xy) THEN area
    ELSE LET a == xy[i]
             b == xy[(i % Len(xy)) + 1]
         IN  Gauss(xy, i + 1, FAdd(area, FSub(FMul(a[1], b[2]), FMul(b[1], a[2]))))

oblicz_powierzchnie_m2(punkty) ==
    IF Len(punkty) = 0 THEN Zwrot(FZero)
    ELSE LET center_lat == FDiv(Suma(punkty, 1, 1, FZero), Len(punkty))
             center_lon == FDiv(Suma(punkty, 2, 1, FZero), Len(punkty))
             mlon       == metry_na_stopien_lon(center_lat)
             xy         == [i \in 1..Len(punkty) |->
                              <<FMul(FSub(punkty[i][2], center_lon), mlon.wart),
                                FMul(FSub(punkty[i][1], center_lat), metry_na_stopien_lat)>>]
         IN  IF mlon.typ = "wyjatek" THEN mlon
             ELSE Zwrot(FDiv(FAbs(Gauss(xy, 1, FZero)), 2))

policz_centroid(punkty) ==
    IF Len(punkty) = 0 THEN None
    ELSE Some(<<FDiv(Suma(punkty, 1, 1, FZero), Len(punkty)),
                FDiv(Suma(punkty, 2, 1, FZero), Len(punkty))>>)

-----------------------------------------------------------------------------
(* 2. MPZP, national (KIMPZP, WMS GetFeatureInfo).                         *)

\* What requests.get hands back: a response, or the exception it raises.
Odp(status, tresc) == [typ |-> "odp", klasa |-> "", status |-> status, text |-> tresc]

Blad(klasa) == [typ |-> "blad", klasa |-> klasa, status |-> 0, text |-> <<>>]

\* requests.exceptions: the classes a class derives from, itself included.
Nadklasy(klasa) ==
    CASE klasa = "ReadTimeout"     -> {"ReadTimeout", "Timeout", "RequestException"}
      [] klasa = "ConnectTimeout"  -> {"ConnectTimeout", "ConnectionError", "Timeout",
                                       "RequestException"}
      [] klasa = "ConnectionError" -> {"ConnectionError", "RequestException"}
      [] klasa = "HTTPError"       -> {"HTTPError", "RequestException"}
      [] OTHER                     -> {klasa}

\* r.raise_for_status(): HTTPError for a 4xx or 5xx status.
raise_for_status(r) ==
    IF r.typ = "odp" /\ r.status >= 400 /\ r.status < 600 THEN Blad("HTTPError") ELSE r

Biale == {" ", "\n"}

RECURSIVE lstrip(_)
lstrip(t) ==
    IF Len(t) > 0 /\ Head(t) \in Biale THEN lstrip(Tail(t)) ELSE t

RECURSIVE rstrip(_)
rstrip(t) ==
    IF Len(t) > 0 /\ t[Len(t)] \in Biale THEN rstrip(SubSeq(t, 1, Len(t) - 1)) ELSE t

strip(t) ==
    rstrip(lstrip(t))

KomBrakPunktow ==
    <<"<p>", "Brak", " ", "punktow", " ", "do", " ", "zapytania", " ", "MPZP", ".", "</p>">>

KomTimeout ==
    <<"<p>", "<b>", "MPZP", " ", "(krajowy):", "</b>", " ", "serwer", " ", "Geoportalu", " ",
      "nie", " ", "odpowiedzial", " ", "w", " ", "wyznaczonym", " ", "czasie", " ",
      "(limit 15 s).", " ", "Sprobuj", " ", "ponownie", " ", "za", " ", "chwile", " ", "lub",
      " ", "sprawdz", " ", "recznie", " ", "w", " ", "Geoportalu.", "</p>">>

KomBlad(e) ==
    <<"<p>", "<b>", "MPZP", " ", "(krajowy):", "</b>", " ", "blad", " ", "zapytania", " ",
      "do", " ", "Geoportalu:", " ", e, "</p>">>

KomPusta ==
    <<"<p>", "MPZP", " ", "(krajowy):", " ", "brak", " ", "informacji", " ",
      "(pusta odpowiedz uslugi).", "</p>">>

ZwrotHtml(h) == [typ |-> "zwrot", wart |-> h, klasa |-> ""]

WyjatekHtml(klasa) == [typ |-> "wyjatek", wart |-> <<>>, klasa |-> klasa]

\* Whether the function gets as far as requests.get.
WysylaZapytanie(punkty) ==
    Len(punkty) > 0 /\ policz_centroid(punkty) # None

\* The function without its second except clause: only ReadTimeout is caught.
pobierz_mpzp_krajowy_html_TylkoTimeout(punkty, w) ==
    IF Len(punkty) = 0 THEN ZwrotHtml(KomBrakPunktow)
    ELSE LET r == raise_for_status(w)
         IN  IF r.typ = "blad"
             THEN (IF "ReadTimeout" \in Nadklasy(r.klasa) THEN ZwrotHtml(KomTimeout)
                   ELSE WyjatekHtml(r.klasa))
             ELSE LET text == strip(r.text)
                  IN  IF Len(text) = 0 THEN ZwrotHtml(KomPusta) ELSE ZwrotHtml(text)

\* pobierz_mpzp_krajowy_html with the outcome w of its one requests.get.
pobierz_mpzp_krajowy_html(punkty, w) ==
    IF Len(punkty) = 0 THEN ZwrotHtml(KomBrakPunktow)
    ELSE LET r == raise_for_status(w)
         IN  IF r.typ = "blad"
             THEN (IF "ReadTimeout" \in Nadklasy(r.klasa) THEN ZwrotHtml(KomTimeout)
                   ELSE IF "RequestException" \in Nadklasy(r.klasa)
                        THEN ZwrotHtml(KomBlad(r.klasa))
                   ELSE WyjatekHtml(r.klasa))
             ELSE LET text == strip(r.text)
                  IN  IF Len(text) = 0 THEN ZwrotHtml(KomPusta) ELSE ZwrotHtml(text)

\* str.lower(), lexeme by lexeme.
lower(t) ==
    [i \in 1..Len(t) |->
        CASE t[i] = "MPZP"   -> "mpzp"
          [] t[i] = "Brak"   -> "brak"
          [] t[i] = "Plan"   -> "plan"
          [] t[i] = "Uchwal" -> "uchwal"
          [] OTHER           -> t[i]]

\* igla in t: igla is a run of consecutive lexemes of t.
Zawiera(t, igla) ==
    \E i \in 1..(Len(t) - Len(igla) + 1) : SubSeq(t, i, i + Len(igla) - 1) = igla

StatusBrakKIMPZP == "Brak danych z Krajowej Integracji MPZP."

StatusBrakDanych ==
    "Brak danych z MPZP dla tego punktu (mozliwy brak planu lub tylko raster)."

StatusPlan ==
    "Plan miejscowy prawdopodobnie obowiazuje - szczegoly w sekcji MPZP (ponizej)."

StatusReczny ==
    "Odpowiedz z serwera MPZP wymaga recznego sprawdzenia (zobacz sekcje MPZP ponizej)."

okresl_status_mpzp_krajowy(html) ==
    IF Len(html) = 0 THEN StatusBrakKIMPZP
    ELSE LET low == lower(html)
         IN  IF Zawiera(low, <<"brak", " ", "wyniku">>) \/ Zawiera(low, <<"brak", " ", "danych">>)
             THEN StatusBrakDanych
             ELSE IF \/ Zawiera(low, <<"mpzp">>)
                     \/ Zawiera(low, <<"plan", " ", "miejscowy">>)
                     \/ Zawiera(low, <<"uchwal">>)
             THEN StatusPlan
             ELSE StatusReczny

-----------------------------------------------------------------------------
(* 3. MPZP, local (stub).                                                  *)

Gminy == {"Brak / nieznana", "Wieliczka"}

\* "" for a key the entry does not have.
MPZP_LOCAL_CONFIG ==
    [g \in Gminy |->
        IF g = "Wieliczka"
        THEN [opis |-> "MPZP obslugiwany na razie tylko z Geoportalu (KIMPZP). Integracja lokalnego WFS w przygotowaniu."]
        ELSE [opis |-> ""]]

BrakLokalnego == "Brak skonfigurowanego lokalnego zrodla MPZP dla tej gminy."

pobierz_mpzp_lokalny_info(nazwa_gminy, punkty) ==
    IF nazwa_gminy \notin DOMAIN MPZP_LOCAL_CONFIG \/ nazwa_gminy = "Brak / nieznana"
    THEN BrakLokalnego
    ELSE LET cfg == MPZP_LOCAL_CONFIG[nazwa_gminy]
         IN  IF cfg.opis # "" THEN cfg.opis
             ELSE "Lokalne zrodlo MPZP nie jest jeszcze w pelni zintegrowane."

-----------------------------------------------------------------------------
(* 4.-6. The session: state, the input column with the GENERUJ button, the *)
(* report column with the clear button.  Every action is one run of the    *)
(* script; a run that reaches requests.get blocks there (pc = "czeka")     *)
(* until the network answers, and no other run starts meanwhile.           *)

\* st.error / st.warning of the input column.
KomZaMalo == "Za malo punktow (minimum 3)."

KomWklej == "Wklej najpierw wspolrzedne!"

\* The check of line 267 one too low.
MinPunktow_Dwa == 3 - 1

\* The fewest points the handler accepts.
MinPunktow == 3

\* Section 6: what the report column shows for a session state, beside the
\* message kom of the input column.  wyniki['m2'] of a missing wyniki raises.
Rysuj(p, w, h, st, l, g, kom) ==
    IF p = None
    THEN [widok |-> "info", wyjatek |-> "", komunikat |-> kom, gmina |-> "",
          lokalny |-> None, status |-> None, pole |-> None, html |-> None]
    ELSE IF w = None
    THEN [widok |-> "wyjatek", wyjatek |-> "TypeError", komunikat |-> kom, gmina |-> "",
          lokalny |-> None, status |-> None, pole |-> None, html |-> None]
    ELSE [widok |-> "raport", wyjatek |-> "", komunikat |-> kom, gmina |-> g,
          lokalny |-> l, status |-> st, pole |-> w, html |-> h]

\* A run that an uncaught exception ended: Streamlit shows the exception.
EkranWyjatku(klasa) ==
    [widok |-> "wyjatek", wyjatek |-> klasa, komunikat |-> "", gmina |-> "",
     lokalny |-> None, status |-> None, pole |-> None, html |-> None]

\* The three figures stored for an area.
Wyniki(pole_m2) ==
    [m2 |-> pole_m2, ar |-> FDiv(pole_m2, 100), ha |-> FDiv(pole_m2, 10000)]

zamien(punkty) ==
    [i \in 1..Len(punkty) |-> <<punkty[i][2], punkty[i][1]>>]

\* The texts pasted into the text area: numbers separated by spaces.
RECURSIVE Zlacz(_)
Zlacz(ts) ==
    IF Len(ts) = 0 THEN <<>>
    ELSE IF Len(ts) = 1 THEN ts[1]
    ELSE ts[1] \o <<" ">> \o Zlacz(Tail(ts))

Ogromny == <<Dziewiatki>>

\* Token lists the pasted texts are cut from: two parcels, and two with a
\* number too long for a float, once as a latitude and once as a longitude.
Wzorce ==
    { <<<<"1">>, <<"1">>, <<"1">>, <<"2">>, <<"2">>, <<"1">>, <<"2">>, <<"2">>>>,
      <<<<"5">>, <<"2">>, <<"1">>, <<"1">>, <<"2">>, <<"5">>, <<"1">>, <<"5">>>>,
      <<Ogromny, <<"1">>, <<"1">>, <<"2">>, <<"2">>, <<"1">>, <<"2">>, <<"2">>>>,
      <<<<"1">>, <<"2">>, <<"2">>, <<"1">>, <<"1">>, Ogromny, <<"2">>, <<"2">>>> }

Min(a, b) ==
    IF a < b THEN a ELSE b

TekstySesji ==
    {Zlacz(SubSeq(w, 1, n)) : w \in Wzorce, n \in 0..Min(MaxTokeny, 8)}

\* Lines 261-265 and 274 for every text and checkbox value, worked out once.
PrzetworzonePunkty ==
    [t \in TekstySesji, z \in BOOLEAN |->
        IF z THEN zamien(parsuj_wspolrzedne(t)) ELSE parsuj_wspolrzedne(t)]

PoleM2 ==
    [t \in TekstySesji, z \in BOOLEAN |-> oblicz_powierzchnie_m2(PrzetworzonePunkty[t, z])]

Wysyla ==
    [t \in TekstySesji, z \in BOOLEAN |-> WysylaZapytanie(PrzetworzonePunkty[t, z])]

\* The outcomes of the one HTTP request.
Tresci ==
    { <<>>,
      <<" ", "\n">>,
      <<"Brak", " ", "wyniku">>,
      <<"<html>", "<body>", "</body>", "</html>">>,
      <<"\n", "<table>", "Plan", " ", "miejscowy", " ", "Uchwal", "a", " ", "nr", " ", "1",
        "</table>", "\n">> }

WynikiSieci ==
    {Blad(k) : k \in {"ReadTimeout", "ConnectTimeout", "ConnectionError"}}
    \cup {Odp(200, t) : t \in Tresci}
    \cup {Odp(404, <<"Not", " ", "Found">>), Odp(503, <<>>)}

Init ==
    /\ punkty_mapy = None
    /\ wyniki_powierzchni = None
    /\ mpzp_krajowy_html = None
    /\ mpzp_krajowy_status = None
    /\ mpzp_lokalny_info = None
    /\ wybrana_gmina = "Brak / nieznana"
    /\ pc = "idle"
    /\ siec = None
    /\ slad = <<>>
    /\ ekran = Rysuj(None, None, None, None, None, "Brak / nieznana", "")
    /\ arg = <<>>
    /\ ret = None

\* The selectbox: a run with another gmina chosen, the button not pressed.
WybierzGmine(g) ==
    /\ pc = "idle"
    /\ g # wybrana_gmina
    /\ wybrana_gmina' = g
    /\ ekran' = Rysuj(punkty_mapy, wyniki_powierzchni, mpzp_krajowy_html,
                      mpzp_krajowy_status, mpzp_lokalny_info, g, "")
    /\ UNCHANGED <<punkty_mapy, wyniki_powierzchni, mpzp_krajowy_html, mpzp_krajowy_status,
                   mpzp_lokalny_info, pc, siec, slad, arg, ret>>

\* Any other widget change: the script runs again and draws the state.
Odswiez ==
    /\ pc = "idle"
    /\ ekran' = Rysuj(punkty_mapy, wyniki_powierzchni, mpzp_krajowy_html,
                      mpzp_krajowy_status, mpzp_lokalny_info, wybrana_gmina, "")
    /\ UNCHANGED <<punkty_mapy, wyniki_powierzchni, mpzp_krajowy_html, mpzp_krajowy_status,
                   mpzp_lokalny_info, wybrana_gmina, pc, siec, slad, arg, ret>>

\* The GENERUJ button, up to the call of requests.get.
Generuj(dane_wejsciowe, zamien_kolejnosc) ==
    /\ pc = "idle"
    /\ LET przetworzone_punkty == PrzetworzonePunkty[dane_wejsciowe, zamien_kolejnosc]
           pole                == PoleM2[dane_wejsciowe, zamien_kolejnosc]
       IN  IF Len(dane_wejsciowe) = 0
           THEN /\ slad' = <<"puste">>
                /\ ekran' = Rysuj(punkty_mapy, wyniki_powierzchni, mpzp_krajowy_html,
                                  mpzp_krajowy_status, mpzp_lokalny_info, wybrana_gmina,
                                  KomWklej)
                /\ UNCHANGED <<punkty_mapy, wyniki_powierzchni, pc>>
           ELSE IF Len(przetworzone_punkty) < MinPunktow
           THEN /\ slad' = <<"za_malo">>
                /\ ekran' = Rysuj(punkty_mapy, wyniki_powierzchni, mpzp_krajowy_html,
                                  mpzp_krajowy_status, mpzp_lokalny_info, wybrana_gmina,
                                  KomZaMalo)
                /\ UNCHANGED <<punkty_mapy, wyniki_powierzchni, pc>>
           ELSE IF pole.typ = "wyjatek"
           THEN /\ punkty_mapy' = Some(przetworzone_punkty)
                /\ slad' = <<"przyjete", pole.klasa>>
                /\ ekran' = EkranWyjatku(pole.klasa)
                /\ UNCHANGED <<wyniki_powierzchni, pc>>
           ELSE /\ punkty_mapy' = Some(przetworzone_punkty)
                /\ wyniki_powierzchni' = Some(Wyniki(pole.wart))
                /\ IF Wysyla[dane_wejsciowe, zamien_kolejnosc]
                   THEN pc' = "czeka" /\ slad' = <<"przyjete", "GET">>
                   ELSE pc' = "idle" /\ slad' = <<"przyjete">>
                /\ ekran' = [ekran EXCEPT !.komunikat = ""]
    /\ UNCHANGED <<mpzp_krajowy_html, mpzp_krajowy_status, mpzp_lokalny_info,
                   wybrana_gmina, siec, arg, ret>>

\* The handler as a resolver would run it: the local source skipped once the
\* national status says that a plan applies.
Odpowiedz_StopAtFound(w) ==
    /\ pc = "czeka"
    /\ pc' = "idle"
    /\ siec' = Some(w)
    /\ LET html_krajowy == pobierz_mpzp_krajowy_html(punkty_mapy[1], w)
           status       == okresl_status_mpzp_krajowy(html_krajowy.wart)
           lokalny      == pobierz_mpzp_lokalny_info(wybrana_gmina, punkty_mapy[1])
       IN  /\ mpzp_krajowy_html' = Some(html_krajowy.wart)
           /\ mpzp_krajowy_status' = Some(status)
           /\ IF status = StatusPlan
              THEN /\ slad' = slad \o <<"krajowy">>
                   /\ UNCHANGED mpzp_lokalny_info
                   /\ ekran' = Rysuj(punkty_mapy, wyniki_powierzchni, Some(html_krajowy.wart),
                                     Some(status), mpzp_lokalny_info, wybrana_gmina, "")
              ELSE /\ slad' = slad \o <<"krajowy", "lokalny">>
                   /\ mpzp_lokalny_info' = Some(lokalny)
                   /\ ekran' = Rysuj(punkty_mapy, wyniki_powierzchni, Some(html_krajowy.wart),
                                     Some(status), Some(lokalny), wybrana_gmina, "")
    /\ UNCHANGED <<punkty_mapy, wyniki_powierzchni, wybrana_gmina, arg, ret>>

\* requests.get returns or raises, and the handler runs to its end.
Odpowiedz(w) ==
    /\ pc = "czeka"
    /\ pc' = "idle"
    /\ siec' = Some(w)
    /\ LET html_krajowy == pobierz_mpzp_krajowy_html(punkty_mapy[1], w)
           status       == okresl_status_mpzp_krajowy(html_krajowy.wart)
           lokalny      == pobierz_mpzp_lokalny_info(wybrana_gmina, punkty_mapy[1])
       IN  IF html_krajowy.typ = "wyjatek"
           THEN /\ slad' = Append(slad, html_krajowy.klasa)
                /\ ekran' = EkranWyjatku(html_krajowy.klasa)
                /\ UNCHANGED <<mpzp_krajowy_html, mpzp_krajowy_status, mpzp_lokalny_info>>
           ELSE /\ mpzp_krajowy_html' = Some(html_krajowy.wart)
                /\ mpzp_krajowy_status' = Some(status)
                /\ mpzp_lokalny_info' = Some(lokalny)
                /\ slad' = slad \o <<"krajowy", "lokalny">>
                /\ ekran' = Rysuj(punkty_mapy, wyniki_powierzchni, Some(html_krajowy.wart),
                                  Some(status), Some(lokalny), wybrana_gmina, "")
    /\ UNCHANGED <<punkty_mapy, wyniki_powierzchni, wybrana_gmina, arg, ret>>

\* The clear button, drawn at the end of a report, and the rerun it asks for.
Wyczysc ==
    /\ pc = "idle"
    /\ ekran.widok = "raport"
    /\ punkty_mapy' = None
    /\ wyniki_powierzchni' = None
    /\ mpzp_krajowy_html' = None
    /\ mpzp_krajowy_status' = None
    /\ mpzp_lokalny_info' = None
    /\ ekran' = Rysuj(None, None, None, None, None, wybrana_gmina, "")
    /\ UNCHANGED <<wybrana_gmina, pc, siec, slad, arg, ret>>

Next ==
    \/ \E g \in Gminy : WybierzGmine(g)
    \/ Odswiez
    \/ \E t \in TekstySesji, z \in BOOLEAN : Generuj(t, z)
    \/ \E w \in WynikiSieci : Odpowiedz(w)
    \/ Wyczysc

Spec == Init /\ [][Next]_vars

-----------------------------------------------------------------------------
(* Properties of the session.                                              *)

Ostatni(q) ==
    IF Len(q) = 0 THEN "" ELSE q[Len(q)]

Ile(q, x) ==
    Cardinality({i \in 1..Len(q) : q[i] = x})

\* The service answered 2xx with a body that is not blank.
OdpowiedzZTrescia(w) ==
    w.typ = "odp" /\ w.status < 400 /\ Len(strip(w.text)) > 0

\* The national lookup found a plan: a populated answer, classified so.
Znaleziono ==
    /\ siec # None /\ OdpowiedzZTrescia(siec[1])
    /\ mpzp_krajowy_status = Some(StatusPlan)

C2_NieRzuca ==
    [][pc = "czeka" =>
          /\ \A w \in WynikiSieci : pobierz_mpzp_krajowy_html(<<>>, w).typ = "zwrot"
          /\ pc' = "idle"
          /\ ekran'.widok = "raport" /\ ekran'.wyjatek = ""
          /\ mpzp_krajowy_html' # None /\ mpzp_krajowy_html' = ekran'.html
          /\ punkty_mapy # None /\ punkty_mapy' = punkty_mapy
          /\ wyniki_powierzchni # None /\ wyniki_powierzchni' = wyniki_powierzchni
          /\ ekran'.pole = wyniki_powierzchni]_vars

\* A run whose request failed has ended in a report.
C2_Witness ==
    /\ pc = "idle" /\ siec # None /\ siec[1].typ = "blad"
    /\ Ostatni(slad) = "lokalny" /\ ekran.widok = "raport"

\* C3: when the lookup ends in a timeout, a transport or HTTP error or an
\* empty body, the status derived from what it returned is never "Plan
\* miejscowy prawdopodobnie obowiazuje".
C3_BladToNiePlan ==
    (siec # None /\ mpzp_krajowy_status # None /\ ~OdpowiedzZTrescia(siec[1]))
        => mpzp_krajowy_status # Some(StatusPlan)

\* C4: a submission of fewer than 3 points stops at the message: no area, no
\* request, every stored result as it was; so a stored polygon has 3 points
\* or more.
C4_Odmowa ==
    /\ [](punkty_mapy # None => Len(punkty_mapy[1]) >= 3)
    /\ [][ekran'.komunikat = KomZaMalo =>
            /\ UNCHANGED <<punkty_mapy, wyniki_powierzchni, mpzp_krajowy_html,
                           mpzp_krajowy_status, mpzp_lokalny_info>>
            /\ pc' = "idle" /\ siec' = siec
            /\ slad' = <<"za_malo">>]_vars

\* A short submission was refused while an earlier report stays stored.
C4_Witness ==
    /\ ekran.komunikat = KomZaMalo /\ ekran.widok = "raport"
    /\ punkty_mapy # None /\ mpzp_krajowy_html # None

\* C6: whenever a polygon is stored, an area triple is stored with it, its m2
\* is the area of exactly that polygon, ar is m2 / 100 and ha is m2 / 10000.
C6_PoleAktualne ==
    punkty_mapy # None =>
        /\ wyniki_powierzchni # None
        /\ oblicz_powierzchnie_m2(punkty_mapy[1]) = Zwrot(wyniki_powierzchni[1].m2)
        /\ wyniki_powierzchni[1].ar = FDiv(wyniki_powierzchni[1].m2, 100)
        /\ wyniki_powierzchni[1].ha = FDiv(wyniki_powierzchni[1].m2, 10000)

\* C7: a submission of 3 points or more issues exactly one request to the
\* national source, none is repeated, and no run starts while one waits.
C7_JednoZapytanie ==
    (Len(slad) > 0 /\ slad[1] = "przyjete") => Ile(slad, "GET") = 1

\* C10: in a drawn report the local text under the heading of gmina G is
\* pobierz_mpzp_lokalny_info(G).
C10_LokalnyZgodny ==
    (ekran.widok = "raport" /\ ekran.lokalny # None) =>
        ekran.lokalny = Some(pobierz_mpzp_lokalny_info(ekran.gmina, punkty_mapy[1]))

-----------------------------------------------------------------------------
(* The pure functions on their own: oblicz_powierzchnie_m2 over vertex     *)
(* lists, with the list then rotated or reversed and the area taken again. *)

Wspolrzedne == {float(<<"1">>), float(<<"2">>), float(<<"5">>), float(<<Dziewiatki>>)}

Wierzcholki == Wspolrzedne \X Wspolrzedne

Listy == UNION {[1..n -> Wierzcholki] : n \in 0..MaxPkt}

Obroc(p) ==
    IF Len(p) = 0 THEN p ELSE Tail(p) \o <<Head(p)>>

Odwroc(p) ==
    [i \in 1..Len(p) |-> p[Len(p) + 1 - i]]

\* The session stays as it starts while a pure function is checked alone.
SesjaNieruchoma ==
    /\ punkty_mapy = None /\ wyniki_powierzchni = None /\ mpzp_krajowy_html = None
    /\ mpzp_krajowy_status = None /\ mpzp_lokalny_info = None
    /\ wybrana_gmina = "Brak / nieznana" /\ pc = "idle" /\ siec = None /\ slad = <<>>
    /\ ekran = Rysuj(None, None, None, None, None, "Brak / nieznana", "")

InitPole ==
    /\ SesjaNieruchoma
    /\ arg \in Listy
    /\ ret = None

Oblicz ==
    /\ ret = None
    /\ ret' = Some(oblicz_powierzchnie_m2(arg))
    /\ UNCHANGED <<sesja, arg>>

Rotacja ==
    /\ ret # None
    /\ arg' = Obroc(arg)
    /\ ret' = Some(oblicz_powierzchnie_m2(arg'))
    /\ UNCHANGED sesja

Odwrocenie ==
    /\ ret # None
    /\ arg' = Odwroc(arg)
    /\ ret' = Some(oblicz_powierzchnie_m2(arg'))
    /\ UNCHANGED sesja

NextPole == Oblicz \/ Rotacja \/ Odwrocenie

SpecPole == InitPole /\ [][NextPole]_vars

Skonczone(p) ==
    \A i \in 1..Len(p) : p[i][1].k = "fin" /\ p[i][2].k = "fin"

\* C8: the area of a vertex list is the area of every rotation of it and of
\* its reversal (stated here for lists of finite coordinates).
C8_RotacjaOdwrocenie ==
    [][(ret # None /\ Skonczone(arg)) => ret' = ret]_vars

\* C9: the area of a vertex list of at most two distinct points is 0.
C9_Zdegenerowany ==
    (ret # None /\ Cardinality({arg[i] : i \in 1..Len(arg)}) <= 2) => ret[1] = Zwrot(FZero)

-----------------------------------------------------------------------------
(* parsuj_wspolrzedne on its own, over every text of the alphabet.          *)

Znaki == {"1", "-", ".", " "}

Teksty == UNION {[1..n -> Znaki] : n \in 0..MaxTekst}

InitParsuj ==
    /\ SesjaNieruchoma
    /\ arg \in Teksty
    /\ ret = None

Parsuj ==
    /\ ret = None
    /\ ret' = Some(parsuj_wspolrzedne(arg))
    /\ UNCHANGED <<sesja, arg>>

NextParsuj == Parsuj

SpecParsuj == InitParsuj /\ [][NextParsuj]_vars

\* C5: for a text whose scan yields N numeric tokens, parsuj_wspolrzedne returns
\* floor(N / 2) points, and point i is (float of token 2i-1, float of token 2i)
\* counting from 1 in the order found; an odd last token is dropped.
C5_Pary ==
    ret # None =>
        LET tok == findall(arg, 1)
            pkt == ret[1]
        IN  /\ Len(pkt) = Len(tok) \div 2
            /\ \A i \in 1..Len(pkt) :
                  pkt[i] = <<float(tok[2 * i - 1]), float(tok[2 * i])>>

\* A text with three tokens has been parsed: one point of two different
\* numbers, the third token dropped.
C5_Witness ==
    /\ ret # None
    /\ Len(findall(arg, 1)) = 3
    /\ Len(ret[1]) = 1
    /\ ret[1][1][1] # ret[1][1][2]

====
